---- MODULE Spec2Model ----
(***************************************************************************)
(* Per-primitive forward/backward transforms of msplat: spherical-harmonics *)
(* colour (ComputeColorFromSH...CUDA) and 3D covariance (computeCov3D...),  *)
(* with the host launchers and the grid of workers that run the kernels.    *)
(*                                                                          *)
(* Numbers.  The kernels compute in float.  The model computes in exact     *)
(* integer arithmetic: directions, SH coefficients, scales, quaternions and *)
(* incoming gradients are integers, and the SH band constants are fixed     *)
(* point with SCALE units per 1.0, so colours and SH gradients are in units *)
(* of 1/SCALE.  Every kernel is a polynomial in its inputs, so no rounding  *)
(* step is modelled; float rounding and overflow are outside the model.     *)
(*                                                                          *)
(* Workers.  A worker that passes its kernel's guard makes its global       *)
(* memory accesses one per step, in the order of the source (a glm::vec3   *)
(* is stored as three floats), and the workers of a launch interleave       *)
(* freely.  The host does not wait for a kernel; kernels run in the order   *)
(* they were launched.  An access outside an array's allocation is          *)
(* undefined behaviour: the kernel faults, or the run goes on with a zero   *)
(* or junk value loaded or a store that hits no array, or anything else     *)
(* happens (phase "undefined", in which the arrays may hold anything).      *)
(*                                                                          *)
(* A glm::vec3 / vec4 is a tuple <<x,y,z>> / <<x,y,z,w>>; a glm::mat3 is a   *)
(* tuple of three columns, m[c+1][r+1] being glm's m[c][r].                 *)
(***************************************************************************)
EXTENDS Integers, Sequences, FiniteSets, Bags, TLC

\* ------------------------------------------------------------------ bounds
\* launch specification: number of primitives 0..MaxN
MaxN == 2
\* launch specification: spare coefficient slots beyond (deg+1)^2 in a slice
MaxPad == 1
\* grid specification: N ranges over the multiples of BLOCK up to MaxGroups
\* of them, 0 included, and the successor of each
MaxGroups == 1
\* numeric specifications: components of directions and scales range over
\* -1..MaxVal
MaxVal == 1
\* launch specification: a stride may be up to MaxShort entries short of the
\* (deg+1)^2 coefficients a worker touches
MaxShort == 1

\* ---------------------------------------------------------------- constants
\* fixed-point unit of the SH constants and of every SH colour / gradient
SCALE == 10^6
\* result += 0.5f
HALF == SCALE \div 2

\* Spherical harmonics coefficients, in units of 1/SCALE
SH_C0 == 282095
SH_C1 == 488603
SH_C2 == [i \in 0..4 |->
            CASE i = 0 -> 1092548
              [] i = 1 -> -1092548
              [] i = 2 -> 315392
              [] i = 3 -> -1092548
              [] i = 4 -> 546274]
SH_C3 == [i \in 0..6 |->
            CASE i = 0 -> -590044
              [] i = 1 -> 2890611
              [] i = 2 -> -457046
              [] i = 3 -> 373176
              [] i = 4 -> -457046
              [] i = 5 -> 1445306
              [] i = 6 -> -590044]

\* workers per group in every launch: <<< (P + 255) / 256, 256 >>>
BLOCK == 256

\* ------------------------------------------------------------- glm helpers
\* float * glm::vec3
VScale(s, v) == <<s * v[1], s * v[2], s * v[3]>>
\* glm::vec3 + glm::vec3, glm::vec3 - glm::vec3
VAdd(a, b) == <<a[1] + b[1], a[2] + b[2], a[3] + b[3]>>
VSub(a, b) == <<a[1] - b[1], a[2] - b[2], a[3] - b[3]>>
\* glm::dot on vec3
Dot(a, b) == a[1] * b[1] + a[2] * b[2] + a[3] * b[3]
Zero3 == <<0, 0, 0>>
\* sum of a tuple of vec3 (a chain of glm::vec3 operator+)
RECURSIVE VSum(_)
VSum(vs) == IF vs = << >> THEN Zero3 ELSE VAdd(Head(vs), VSum(Tail(vs)))

\* glm::mat3(a,b,c, d,e,f, g,h,i): column-major constructor
Mat3(a, b, c, d, e, f, g, h, i) == <<<<a, b, c>>, <<d, e, f>>, <<g, h, i>>>>
\* glm's m[c][r]
El(m, c, r) == m[c + 1][r + 1]
\* glm::transpose
Transpose(m) ==
    [c \in 1..3 |-> [r \in 1..3 |-> m[r][c]]]
\* glm::mat3 * glm::mat3: (A*B)[c][r] = sum_k A[k][r] * B[c][k]
MatMul(A, B) ==
    [c \in 1..3 |-> [r \in 1..3 |->
        A[1][r] * B[c][1] + A[2][r] * B[c][2] + A[3][r] * B[c][3]]]

\* --------------------------------------------------------------- SH kernels
\* number of coefficients a kernel of degree deg touches: sh[0] .. sh[(deg+1)^2-1]
NumCoeffs(d) == (d + 1) * (d + 1)

\* faulty variant of ShIndex: the slice offset without the stride
ShIndexNoStride(idx, mc, k) == idx + k

\* const glm::vec3* sh = shs + idx * max_coeffs;  sh[k] is shs[ShIndex(...)]
ShIndex(idx, mc, k) == idx * mc + k

\* glm::vec3 result = SH_C0 * sh[0];
SHBand0(sh) == VScale(SH_C0, sh[0])

\* faulty variant of SHAddBand1: band 1 replaces the sum instead of extending it
SHAddBand1Replaces(result, dir, sh) ==
    LET x == dir[1]
        y == dir[2]
        z == dir[3]
    IN  VSub(VAdd(VSub(Zero3, VScale(SH_C1 * y, sh[1])),
                  VScale(SH_C1 * z, sh[2])),
             VScale(SH_C1 * x, sh[3]))

\* result = result - SH_C1 * y * sh[1] + SH_C1 * z * sh[2] - SH_C1 * x * sh[3];
SHAddBand1(result, dir, sh) ==
    LET x == dir[1]
        y == dir[2]
        z == dir[3]
    IN  VSub(VAdd(VSub(result, VScale(SH_C1 * y, sh[1])),
                  VScale(SH_C1 * z, sh[2])),
             VScale(SH_C1 * x, sh[3]))

\* result = result + SH_C2[0] * xy * sh[4] + ... + SH_C2[4] * (xx - yy) * sh[8];
SHAddBand2(result, dir, sh) ==
    LET x == dir[1]
        y == dir[2]
        z == dir[3]
        xx == x * x
        yy == y * y
        zz == z * z
        xy == x * y
        yz == y * z
        xz == x * z
    IN  VSum(<<result,
               VScale(SH_C2[0] * xy, sh[4]),
               VScale(SH_C2[1] * yz, sh[5]),
               VScale(SH_C2[2] * (2 * zz - xx - yy), sh[6]),
               VScale(SH_C2[3] * xz, sh[7]),
               VScale(SH_C2[4] * (xx - yy), sh[8])>>)

\* result = result + SH_C3[0] * y * (3.0f * xx - yy) * sh[9] + ... ;
SHAddBand3(result, dir, sh) ==
    LET x == dir[1]
        y == dir[2]
        z == dir[3]
        xx == x * x
        yy == y * y
        zz == z * z
        xy == x * y
    IN  VSum(<<result,
               VScale(SH_C3[0] * y * (3 * xx - yy), sh[9]),
               VScale(SH_C3[1] * xy * z, sh[10]),
               VScale(SH_C3[2] * y * (4 * zz - xx - yy), sh[11]),
               VScale(SH_C3[3] * z * (2 * zz - 3 * xx - 3 * yy), sh[12]),
               VScale(SH_C3[4] * x * (4 * zz - xx - yy), sh[13]),
               VScale(SH_C3[5] * z * (xx - yy), sh[14]),
               VScale(SH_C3[6] * x * (xx - 3 * yy), sh[15])>>)

\* The forward sum with its bias, `result` after line 86.
\* sh is the worker's slice, sh[k] for the k the degree reads.
SHForwardResult(d, dir, sh) ==
    LET r0 == SHBand0(sh)
        r1 == IF d > 0 THEN SHAddBand1(r0, dir, sh) ELSE r0
        r2 == IF d > 1 THEN SHAddBand2(r1, dir, sh) ELSE r1
        r3 == IF d > 2 THEN SHAddBand3(r2, dir, sh) ELSE r2
    IN  <<r3[1] + HALF, r3[2] + HALF, r3[3] + HALF>>

\* faulty variant of ClampFlag: a result of exactly 0 counted as clamped
ClampFlagAtZero(r) == r <= 0

\* clamped[3 * idx + c] = (result.c < 0)
ClampFlag(r) == r < 0
\* glm::max(result, 0.0f), per component
ClampValue(r) == IF r > 0 THEN r ELSE 0

\* What the forward worker stores: the clamp mask (3 flags) and the colour.
SHForward(d, dir, sh) ==
    LET result == SHForwardResult(d, dir, sh)
    IN  [clamped |-> <<ClampFlag(result[1]), ClampFlag(result[2]), ClampFlag(result[3])>>,
         color   |-> <<ClampValue(result[1]), ClampValue(result[2]), ClampValue(result[3])>>]

\* dL_dcolor.c *= clamped[3 * idx + c] ? 0 : 1
MaskGrad(flag, g) == g * (IF flag THEN 0 ELSE 1)

\* dRGBdsh0 .. dRGBdsh15, lines 132-175
dRGBdsh(k, dir) ==
    LET x == dir[1]
        y == dir[2]
        z == dir[3]
        xx == x * x
        yy == y * y
        zz == z * z
        xy == x * y
        yz == y * z
        xz == x * z
    IN  CASE k = 0 -> SH_C0
          [] k = 1 -> (-SH_C1) * y
          [] k = 2 -> SH_C1 * z
          [] k = 3 -> (-SH_C1) * x
          [] k = 4 -> SH_C2[0] * xy
          [] k = 5 -> SH_C2[1] * yz
          [] k = 6 -> SH_C2[2] * (2 * zz - xx - yy)
          [] k = 7 -> SH_C2[3] * xz
          [] k = 8 -> SH_C2[4] * (xx - yy)
          [] k = 9 -> SH_C3[0] * y * (3 * xx - yy)
          [] k = 10 -> SH_C3[1] * xy * z
          [] k = 11 -> SH_C3[2] * y * (4 * zz - xx - yy)
          [] k = 12 -> SH_C3[3] * z * (2 * zz - 3 * xx - 3 * yy)
          [] k = 13 -> SH_C3[4] * x * (4 * zz - xx - yy)
          [] k = 14 -> SH_C3[5] * z * (xx - yy)
          [] k = 15 -> SH_C3[6] * x * (xx - 3 * yy)

\* lines 143-145: <<dRGBdx, dRGBdy, dRGBdz>> of band 1
dRGBdBand1(dir, sh) ==
    <<VScale(-SH_C1, sh[3]),
      VScale(-SH_C1, sh[1]),
      VScale(SH_C1, sh[2])>>

\* faulty variant of dRGBdBand2: the z-derivative of 2 zz - xx - yy taken as 2 z
dRGBdBand2Slip(dir, sh) ==
    LET x == dir[1]
        y == dir[2]
        z == dir[3]
    IN  <<VSum(<<VScale(SH_C2[0] * y, sh[4]),
                 VScale(SH_C2[2] * 2 * (-x), sh[6]),
                 VScale(SH_C2[3] * z, sh[7]),
                 VScale(SH_C2[4] * 2 * x, sh[8])>>),
          VSum(<<VScale(SH_C2[0] * x, sh[4]),
                 VScale(SH_C2[1] * z, sh[5]),
                 VScale(SH_C2[2] * 2 * (-y), sh[6]),
                 VScale(SH_C2[4] * 2 * (-y), sh[8])>>),
          VSum(<<VScale(SH_C2[1] * y, sh[5]),
                 VScale(SH_C2[2] * 2 * z, sh[6]),
                 VScale(SH_C2[3] * x, sh[7])>>)>>

\* lines 163-165: what band 2 adds to <<dRGBdx, dRGBdy, dRGBdz>>
dRGBdBand2(dir, sh) ==
    LET x == dir[1]
        y == dir[2]
        z == dir[3]
    IN  <<VSum(<<VScale(SH_C2[0] * y, sh[4]),
                 VScale(SH_C2[2] * 2 * (-x), sh[6]),
                 VScale(SH_C2[3] * z, sh[7]),
                 VScale(SH_C2[4] * 2 * x, sh[8])>>),
          VSum(<<VScale(SH_C2[0] * x, sh[4]),
                 VScale(SH_C2[1] * z, sh[5]),
                 VScale(SH_C2[2] * 2 * (-y), sh[6]),
                 VScale(SH_C2[4] * 2 * (-y), sh[8])>>),
          VSum(<<VScale(SH_C2[1] * y, sh[5]),
                 VScale(SH_C2[2] * 2 * 2 * z, sh[6]),
                 VScale(SH_C2[3] * x, sh[7])>>)>>

\* lines 184-207: what band 3 adds to <<dRGBdx, dRGBdy, dRGBdz>>
dRGBdBand3(dir, sh) ==
    LET x == dir[1]
        y == dir[2]
        z == dir[3]
        xx == x * x
        yy == y * y
        zz == z * z
        xy == x * y
        yz == y * z
        xz == x * z
    IN  <<VSum(<<VScale(SH_C3[0] * 3 * 2 * xy, sh[9]),
                 VScale(SH_C3[1] * yz, sh[10]),
                 VScale(SH_C3[2] * (-2) * xy, sh[11]),
                 VScale(SH_C3[3] * (-3) * 2 * xz, sh[12]),
                 VScale(SH_C3[4] * ((-3) * xx + 4 * zz - yy), sh[13]),
                 VScale(SH_C3[5] * 2 * xz, sh[14]),
                 VScale(SH_C3[6] * 3 * (xx - yy), sh[15])>>),
          VSum(<<VScale(SH_C3[0] * 3 * (xx - yy), sh[9]),
                 VScale(SH_C3[1] * xz, sh[10]),
                 VScale(SH_C3[2] * ((-3) * yy + 4 * zz - xx), sh[11]),
                 VScale(SH_C3[3] * (-3) * 2 * yz, sh[12]),
                 VScale(SH_C3[4] * (-2) * xy, sh[13]),
                 VScale(SH_C3[5] * (-2) * yz, sh[14]),
                 VScale(SH_C3[6] * (-3) * 2 * xy, sh[15])>>),
          VSum(<<VScale(SH_C3[1] * xy, sh[10]),
                 VScale(SH_C3[2] * 4 * 2 * yz, sh[11]),
                 VScale(SH_C3[3] * 3 * (2 * zz - xx - yy), sh[12]),
                 VScale(SH_C3[4] * 4 * 2 * xz, sh[13]),
                 VScale(SH_C3[5] * (xx - yy), sh[14])>>)>>

\* the three accumulators dRGBdx, dRGBdy, dRGBdz a += b
Add3(a, b) == <<VAdd(a[1], b[1]), VAdd(a[2], b[2]), VAdd(a[3], b[3])>>

\* lines 116-119: the incoming colour gradient after the clamp mask;
\* cl is the worker's three clamp flags
MaskedColorGrad(cl, dL_dcolor0) ==
    <<MaskGrad(cl[1], dL_dcolor0[1]),
      MaskGrad(cl[2], dL_dcolor0[2]),
      MaskGrad(cl[3], dL_dcolor0[3])>>

\* The backward worker, lines 116-213: the gradients it stores.
\* cl is the worker's three clamp flags, dL_dcolor0 the incoming gradient.
SHBackward(d, dir, sh, cl, dL_dcolor0) ==
    LET dL_dcolor == MaskedColorGrad(cl, dL_dcolor0)
        d0 == <<Zero3, Zero3, Zero3>>
        d1 == IF d > 0 THEN dRGBdBand1(dir, sh) ELSE d0
        d2 == IF d > 1 THEN Add3(d1, dRGBdBand2(dir, sh)) ELSE d1
        d3 == IF d > 2 THEN Add3(d2, dRGBdBand3(dir, sh)) ELSE d2
    IN  [dL_dsh  |-> [k \in 0..(NumCoeffs(d) - 1) |-> VScale(dRGBdsh(k, dir), dL_dcolor)],
         dL_ddir |-> <<Dot(d3[1], dL_dcolor), Dot(d3[2], dL_dcolor), Dot(d3[3], dL_dcolor)>>]

\* --------------------------------------------------------- covariance kernels
\* scale_vector_to_matrix: glm::mat3(1.0f) with the diagonal overwritten
scale_vector_to_matrix(scale) ==
    Mat3(scale[1], 0, 0,
         0, scale[2], 0,
         0, 0, scale[3])

\* unit_quaternion_to_rotmatrix: r = uquat.x, x = uquat.y, y = uquat.z, z = uquat.w;
\* the nine constructor arguments fill the matrix column by column
unit_quaternion_to_rotmatrix(uquat) ==
    LET r == uquat[1]
        x == uquat[2]
        y == uquat[3]
        z == uquat[4]
    IN  Mat3(1 - 2 * (y * y + z * z),
             2 * (x * y - r * z),
             2 * (x * z + r * y),
             2 * (x * y + r * z),
             1 - 2 * (x * x + z * z),
             2 * (y * z - r * x),
             2 * (x * z - r * y),
             2 * (y * z + r * x),
             1 - 2 * (x * x + y * y))

\* faulty variant of Cov3DSigma: the transpose forgotten
Cov3DSigmaNoTranspose(scale, quat) ==
    LET S == scale_vector_to_matrix(scale)
        R == unit_quaternion_to_rotmatrix(quat)
        M == MatMul(S, R)
    IN  MatMul(M, M)

\* glm::mat3 Sigma = glm::transpose(M) * M, with M = S * R
Cov3DSigma(scale, quat) ==
    LET S == scale_vector_to_matrix(scale)
        R == unit_quaternion_to_rotmatrix(quat)
        M == MatMul(S, R)
    IN  MatMul(Transpose(M), M)

\* compute_cov3d_forward: the six floats stored at cov3D[0..5]
compute_cov3d_forward(scale, quat) ==
    LET Sigma == Cov3DSigma(scale, quat)
    IN  <<El(Sigma, 0, 0), El(Sigma, 0, 1), El(Sigma, 0, 2),
          El(Sigma, 1, 1), El(Sigma, 1, 2), El(Sigma, 2, 2)>>

\* faulty variant of TwiceDLdSigma: the off-diagonal entries not halved
TwiceDLdSigmaUnhalved(dL_dcov3D) ==
    Mat3(2 * dL_dcov3D[1], 2 * dL_dcov3D[2], 2 * dL_dcov3D[3],
         2 * dL_dcov3D[2], 2 * dL_dcov3D[4], 2 * dL_dcov3D[5],
         2 * dL_dcov3D[3], 2 * dL_dcov3D[5], 2 * dL_dcov3D[6])

\* Lines 107-115.  dL_dSigma carries 0.5f * dL_dcov3D off the diagonal and
\* dL_dM = 2.0f * M * dL_dSigma.  To stay in integers the factor 2.0f is
\* moved into the matrix: this is 2 * dL_dSigma, and dL_dM is M * (2 dL_dSigma).
TwiceDLdSigma(dL_dcov3D) ==
    Mat3(2 * dL_dcov3D[1], dL_dcov3D[2], dL_dcov3D[3],
         dL_dcov3D[2], 2 * dL_dcov3D[4], dL_dcov3D[5],
         dL_dcov3D[3], dL_dcov3D[5], 2 * dL_dcov3D[6])

\* compute_cov3_backward: dL_dscale (vec3) and dL_dquat (vec4);
\* dL_dcov3D is the tuple of the six floats dL_dcov3D[0..5]
compute_cov3_backward(scale, quat, dL_dcov3D) ==
    LET S == scale_vector_to_matrix(scale)
        R == unit_quaternion_to_rotmatrix(quat)
        M == MatMul(S, R)
        dL_dM == MatMul(M, TwiceDLdSigma(dL_dcov3D))
        Rt == Transpose(R)
        dL_dMt0 == Transpose(dL_dM)
        dL_dscale == <<Dot(Rt[1], dL_dMt0[1]),
                       Dot(Rt[2], dL_dMt0[2]),
                       Dot(Rt[3], dL_dMt0[3])>>
        \* dL_dMt[c] *= scale.c
        dL_dMt == <<VScale(scale[1], dL_dMt0[1]),
                    VScale(scale[2], dL_dMt0[2]),
                    VScale(scale[3], dL_dMt0[3])>>
        r == quat[1]
        x == quat[2]
        y == quat[3]
        z == quat[4]
        D(c, rr) == El(dL_dMt, c, rr)
    IN  [dL_dscale |-> dL_dscale,
         dL_dquat |-> <<
            2 * z * (D(0, 1) - D(1, 0)) +
            2 * y * (D(2, 0) - D(0, 2)) +
            2 * x * (D(1, 2) - D(2, 1)),
            2 * y * (D(1, 0) + D(0, 1)) +
            2 * z * (D(2, 0) + D(0, 2)) +
            2 * r * (D(1, 2) - D(2, 1)) -
            4 * x * (D(2, 2) + D(1, 1)),
            2 * x * (D(1, 0) + D(0, 1)) +
            2 * r * (D(2, 0) - D(0, 2)) +
            2 * z * (D(1, 2) + D(2, 1)) -
            4 * y * (D(2, 2) + D(0, 0)),
            2 * r * (D(0, 1) - D(1, 0)) +
            2 * x * (D(2, 0) + D(0, 2)) +
            2 * y * (D(1, 2) + D(2, 1)) -
            4 * z * (D(1, 1) + D(0, 0))>>]

\* ------------------------------------------------------------ program state
VARIABLES
    todo,       \* the host's remaining calls, a sequence of operations
    queue,      \* the launches the host has issued and the device has not started
    phase,      \* the device: "idle", "running" a kernel, "faulted" or "undefined"
    op,         \* the kernel the device runs or ran last
    P,          \* number of primitives, the P of every call
    deg,        \* SH degree of the calls
    max_coeffs, \* SH coefficient stride of the calls
    mem,        \* the arrays, by parameter name: mem.colors[i], mem.shs[j], ...
    pre,        \* mem as it was when the current / last kernel started
    prog,       \* rank -> the accesses of each worker that passes the guard, in program order
    pc,         \* rank -> the worker's position: 0 at the guard, k before its k-th access
    regs,       \* rank -> the values the worker has loaded, by location
    culled,     \* ranks idx < P with a false flag whose worker has not returned yet
    surplus,    \* number of workers with idx >= P that have not returned yet
    classes,    \* the kernel's grid and how many culled and surplus workers it started with
    log,        \* bag of the array accesses the workers have made
    launches    \* the kernel launches the host has issued, in order

vars == <<todo, queue, phase, op, P, deg, max_coeffs, mem, pre, prog, pc, regs,
          culled, surplus, classes, log, launches>>

Ops == {"SHForward", "SHBackward", "Cov3DForward", "Cov3DBackward"}
IsSH(o) == o \in {"SHForward", "SHBackward"}

\* the arrays a kernel reads and the arrays it writes (its parameters)
InputArrays(o) ==
    CASE o = "SHForward" -> {"visible", "dirs", "shs"}
      [] o = "SHBackward" -> {"visible", "dirs", "shs", "clamped", "dL_dcolors"}
      [] o = "Cov3DForward" -> {"visible", "scales", "uquats"}
      [] o = "Cov3DBackward" -> {"visible", "scales", "uquats", "dL_dcov3Ds"}
OutputArrays(o) ==
    CASE o = "SHForward" -> {"colors", "clamped"}
      [] o = "SHBackward" -> {"dL_ddirs", "dL_dshs"}
      [] o = "Cov3DForward" -> {"cov3Ds"}
      [] o = "Cov3DBackward" -> {"dL_dscales", "dL_duquats"}

\* faulty variant of GridSize: the group count rounded down
GridSizeFloor(n) == n \div BLOCK

\* (P + 255) / 256, the number of groups of a launch
GridSize(n) == (n + (BLOCK - 1)) \div BLOCK

\* the ranks of the workers of a launch of grid groups: cg::this_grid().thread_rank()
Ranks(grid) == 0..(grid * BLOCK - 1)

\* idx >= P, the first operand of every kernel's guard
OutOfRange(idx, n) == idx >= n

\* faulty variant of Culled: the guard without its visibility test
CulledNever(idx) == FALSE

\* !visibility_filter[idx], the second operand (evaluated only when idx < P)
Culled(idx) == ~mem.visible[idx]

\* ----------------------------------------------------------- worker accesses
\* One global memory access: a load ("R") or a store ("W") of entry i of an
\* array; k is the entry's number within the worker's own data (the
\* coefficient, the channel, the covariance entry); c is the component of a
\* glm::vec3 entry a store sets (1, 2, 3 for x, y, z), 0 for a whole entry.
Acc(kind, arr, i, k) == [kind |-> kind, arr |-> arr, i |-> i, k |-> k, c |-> 0]

\* The assignment of a glm::vec3 to entry i of an array: memberwise, three
\* float stores x, y, z, between which other workers run.  (The loads of a
\* vec3 entry are kept together: no kernel stores to an array it loads from,
\* so the entry cannot change between the loads of its components.)
VecStore(arr, i, k) == [c \in 1..3 |-> [Acc("W", arr, i, k) EXCEPT !.c = c]]

\* the coefficients of band b, in index order: b*b .. (b+1)*(b+1) - 1
BandSlots(b) == [j \in 1..(2 * b + 1) |-> b * b + j - 1]

\* accesses of the entries sh[k] / dL_dsh[k] of the worker's slice, k along
\* slots: one load per entry, three float stores per entry
ShAccesses(kind, arr, idx, slots) ==
    IF kind = "R"
    THEN [j \in 1..Len(slots) |->
            Acc("R", arr, ShIndex(idx, max_coeffs, slots[j]), slots[j])]
    ELSE [j \in 1..(3 * Len(slots)) |->
            LET k == slots[((j - 1) \div 3) + 1]
            IN  VecStore(arr, ShIndex(idx, max_coeffs, k), k)[((j - 1) % 3) + 1]]

\* SH forward, lines 53-82: band b is read when deg >= b, sh[k] in index order
RECURSIVE SHForwardBands(_, _, _)
SHForwardBands(idx, b, last) ==
    IF b > last
    THEN << >>
    ELSE ShAccesses("R", "shs", idx, BandSlots(b)) \o SHForwardBands(idx, b + 1, last)

\* SH forward after the guard: dirs[idx], the coefficients, then the three
\* clamp flags and the colour (lines 50-93)
SHForwardAccesses(idx) ==
    <<Acc("R", "dirs", idx, 0)>>
    \o SHForwardBands(idx, 0, deg)
    \o [c \in 1..3 |-> Acc("W", "clamped", 3 * idx + c - 1, c - 1)]
    \o VecStore("colors", idx, 0)

\* the order in which SH backward first reads the coefficients of band b:
\* none of band 0; sh[3], sh[1], sh[2] (lines 143-145); sh[4], sh[6], sh[7],
\* sh[8], sh[5] (lines 163-165); sh[9] .. sh[15] (lines 184-207)
SHBackwardReadOrder(b) ==
    CASE b = 0 -> << >>
      [] b = 1 -> <<3, 1, 2>>
      [] b = 2 -> <<4, 6, 7, 8, 5>>
      [] b = 3 -> <<9, 10, 11, 12, 13, 14, 15>>

\* faulty variant of SHBackwardLastBand: band 1 handled whatever the degree
SHBackwardLastBandAtLeast1(d) == IF d > 1 THEN d ELSE 1

\* the last band the nest if (deg > 0) { if (deg > 1) { if (deg > 2) handles
SHBackwardLastBand(d) == d

\* SH backward, lines 132-207: per band, the stores of dL_dsh[k] and then the
\* loads of sh[k]
RECURSIVE SHBackwardBands(_, _, _)
SHBackwardBands(idx, b, last) ==
    IF b > last
    THEN << >>
    ELSE ShAccesses("W", "dL_dshs", idx, BandSlots(b))
         \o ShAccesses("R", "shs", idx, SHBackwardReadOrder(b))
         \o SHBackwardBands(idx, b + 1, last)

\* SH backward after the guard: dirs[idx], dL_dcolors[idx], the three clamp
\* flags, the bands, and dL_ddirs[idx] last (lines 110-213)
SHBackwardAccesses(idx) ==
    <<Acc("R", "dirs", idx, 0), Acc("R", "dL_dcolors", idx, 0)>>
    \o [c \in 1..3 |-> Acc("R", "clamped", 3 * idx + c - 1, c - 1)]
    \o SHBackwardBands(idx, 0, SHBackwardLastBand(deg))
    \o VecStore("dL_ddirs", idx, 0)

\* covariance forward after the guard: scales[idx] and uquats[idx] by value,
\* then cov3D[0] .. cov3D[5] of cov3Ds + 6 * idx
Cov3DForwardAccesses(idx) ==
    <<Acc("R", "scales", idx, 0), Acc("R", "uquats", idx, 0)>>
    \o [e \in 1..6 |-> Acc("W", "cov3Ds", 6 * idx + e - 1, e - 1)]

\* covariance backward after the guard: scales[idx] and uquats[idx] by value,
\* dL_dcov3D[0] .. [5] of dL_dcov3Ds + 6 * idx, then the components of
\* dL_dscales[idx] and of dL_duquats[idx] through the references
Cov3DBackwardAccesses(idx) ==
    <<Acc("R", "scales", idx, 0), Acc("R", "uquats", idx, 0)>>
    \o [e \in 1..6 |-> Acc("R", "dL_dcov3Ds", 6 * idx + e - 1, e - 1)]
    \o [c \in 1..3 |-> Acc("W", "dL_dscales", 3 * idx + c - 1, c - 1)]
    \o [c \in 1..4 |-> Acc("W", "dL_duquats", 4 * idx + c - 1, c - 1)]

\* the accesses of the worker of rank idx after the guard, in program order
Program(o, idx) ==
    CASE o = "SHForward" -> SHForwardAccesses(idx)
      [] o = "SHBackward" -> SHBackwardAccesses(idx)
      [] o = "Cov3DForward" -> Cov3DForwardAccesses(idx)
      [] o = "Cov3DBackward" -> Cov3DBackwardAccesses(idx)

\* the worker has returned
Done(idx) == pc[idx] > Len(prog[idx])

\* the value loaded from a location, dflt while it has not been loaded
Got(r, arr, i, dflt) == IF <<arr, i>> \in DOMAIN r THEN r[<<arr, i>>] ELSE dflt

\* the value the worker of rank idx stores by access a, from what it loaded (r)
StoreValue(o, idx, r, a) ==
    CASE o = "SHForward" ->
            LET dir == Got(r, "dirs", idx, Zero3)
                sh == [k \in 0..(NumCoeffs(deg) - 1) |->
                            Got(r, "shs", ShIndex(idx, max_coeffs, k), Zero3)]
                f == SHForward(deg, dir, sh)
            IN  IF a.arr = "clamped" THEN f.clamped[a.k + 1] ELSE f.color
      [] o = "SHBackward" ->
            LET dir == Got(r, "dirs", idx, Zero3)
                sh == [k \in 0..(NumCoeffs(deg) - 1) |->
                            Got(r, "shs", ShIndex(idx, max_coeffs, k), Zero3)]
                cl == [c \in 1..3 |-> Got(r, "clamped", 3 * idx + c - 1, FALSE)]
                g == Got(r, "dL_dcolors", idx, Zero3)
            IN  IF a.arr = "dL_dshs"
                THEN VScale(dRGBdsh(a.k, dir), MaskedColorGrad(cl, g))
                ELSE SHBackward(deg, dir, sh, cl, g).dL_ddir
      [] o = "Cov3DForward" ->
            compute_cov3d_forward(Got(r, "scales", idx, Zero3),
                                  Got(r, "uquats", idx, <<0, 0, 0, 0>>))[a.k + 1]
      [] o = "Cov3DBackward" ->
            LET b == compute_cov3_backward(
                        Got(r, "scales", idx, Zero3),
                        Got(r, "uquats", idx, <<0, 0, 0, 0>>),
                        [e \in 1..6 |-> Got(r, "dL_dcov3Ds", 6 * idx + e - 1, 0)])
            IN  IF a.arr = "dL_dscales" THEN b.dL_dscale[a.k + 1] ELSE b.dL_dquat[a.k + 1]

\* a value no kernel stores: what the caller's output buffers hold before a
\* call, and what memory outside a buffer may hold
Junk3 == <<-7, -7, -7>>

\* values a load outside the array's allocation may return when the run goes on
Unknown(arr) ==
    CASE arr \in {"visible", "clamped"} -> BOOLEAN
      [] arr = "uquats" -> {<<0, 0, 0, 0>>, <<-7, -7, -7, -7>>}
      [] arr \in {"cov3Ds", "dL_dcov3Ds", "dL_dscales", "dL_duquats"} -> {0, -7}
      [] OTHER -> {Zero3, Junk3}

\* A load of entry i: inside the allocation it returns the entry.  Outside it
\* the index is not checked and the behaviour is undefined: the kernel
\* faults; or the load returns a zero or a junk value and the run goes on; or
\* it returns anything else that lies behind the array, another array of the
\* call included ("undefined": from then on the arrays may hold anything,
\* and the run is not followed further).
LoadOutcomes(arr, i) ==
    IF i \in DOMAIN mem[arr]
    THEN {[end |-> "none", val |-> mem[arr][i]]}
    ELSE {[end |-> "faulted", val |-> 0], [end |-> "undefined", val |-> 0]}
         \cup {[end |-> "none", val |-> v] : v \in Unknown(arr)}

\* A store to entry i: inside the allocation it sets the entry.  Outside it
\* the kernel faults; or the store lands outside the arrays of the call and
\* the run goes on; or it lands on whatever follows the array, an input or
\* an output of the call included ("undefined").
StoreOutcomes(arr, i) ==
    IF i \in DOMAIN mem[arr] THEN {"stored"} ELSE {"faulted", "undefined", "outside"}

\* one log entry per access
Access(idx, a) ==
    SetToBag({[w |-> idx, kind |-> a.kind, arr |-> a.arr, i |-> a.i, c |-> a.c]})

\* the accesses of the guard  if (idx >= P || !visibility_filter[idx]) return;
\* the flag is read only when idx < P
GuardAccesses(idx) ==
    IF OutOfRange(idx, P) THEN << >> ELSE <<Acc("R", "visible", idx, 0)>>

\* the log entries of the guards of the workers of ranks S
GuardLog(S) ==
    SetToBag({[w |-> idx, kind |-> "R", arr |-> "visible", i |-> idx, c |-> 0] :
                idx \in {r \in S : GuardAccesses(r) # << >>}})

\* the ranks from..(to - 1) whose flag is false, in rank order
RECURSIVE CulledRanks(_, _)
CulledRanks(from, to) ==
    IF from >= to
    THEN << >>
    ELSE IF to = from + 1
    THEN (IF Culled(from) THEN <<from>> ELSE << >>)
    ELSE LET mid == (from + to) \div 2
         IN  CulledRanks(from, mid) \o CulledRanks(mid, to)

\* ------------------------------------------------------------------- host
\* torch::zeros({P, 6}), torch::zeros({P, 3}), torch::zeros({P, 4}): the
\* covariance entry points allocate their outputs; the SH launchers get theirs
\* from the caller
Allocate(o, m) ==
    CASE o = "Cov3DForward" ->
            [m EXCEPT !.cov3Ds = [i \in 0..(6 * P - 1) |-> 0]]
      [] o = "Cov3DBackward" ->
            [m EXCEPT !.dL_dscales = [i \in 0..(3 * P - 1) |-> 0],
                      !.dL_duquats = [i \in 0..(4 * P - 1) |-> 0]]
      [] OTHER -> m

\* whether the entry point issues the launch: the covariance entry points
\* test if (P != 0), the SH launchers launch unconditionally
IssuesLaunch(o, n) ==
    IF IsSH(o) THEN TRUE ELSE n # 0

\* The host calls the next operation: the entry point allocates (covariance),
\* issues the launch and returns without waiting for the kernel.
Call ==
    /\ todo # << >>
    /\ LET o == Head(todo)
           L == [kernel |-> o, grid |-> GridSize(P), block |-> BLOCK]
       IN  /\ mem' = Allocate(o, mem)
           /\ IF IssuesLaunch(o, P)
              THEN /\ launches' = Append(launches, L)
                   /\ queue' = Append(queue, L)
              ELSE /\ launches' = launches
                   /\ queue' = queue
    /\ todo' = Tail(todo)
    /\ UNCHANGED <<phase, op, P, deg, max_coeffs, pre, prog, pc, regs, culled, surplus,
                   classes, log>>

\* ----------------------------------------------------------------- device
\* The device starts the next launch of the stream once the previous kernel
\* is complete.  Its grid * block workers fall into three classes by the guard
\* if (idx >= P || !visibility_filter[idx]) return;  which reads only the
\* visibility array, an array no kernel writes: surplus workers (idx >= P),
\* culled workers (idx < P, flag false) and the workers that pass.  The workers
\* that pass are followed access by access.  A culled worker reads its flag
\* and returns; a surplus worker returns without any access.
Start ==
    /\ phase = "idle"
    /\ queue # << >>
    /\ LET L == Head(queue)
           inRange == {idx \in Ranks(L.grid) : ~OutOfRange(idx, P)}
           passing == {idx \in inRange : ~Culled(idx)}
           nSurplus == L.grid * L.block - Cardinality(inRange)
       IN  /\ op' = L.kernel
           /\ prog' = [idx \in passing |-> Program(L.kernel, idx)]
           /\ pc' = [idx \in passing |-> 0]
           /\ regs' = [idx \in passing |-> << >>]
           /\ culled' = SelectSeq(CulledRanks(0, P), LAMBDA idx : idx \in inRange)
           /\ surplus' = nSurplus
           /\ classes' = [grid |-> L.grid,
                          culled |-> Cardinality(inRange) - Cardinality(passing),
                          surplus |-> nSurplus]
    /\ queue' = Tail(queue)
    /\ pre' = mem
    /\ log' = EmptyBag
    /\ phase' = "running"
    /\ UNCHANGED <<todo, P, deg, max_coeffs, mem, launches>>

\* a worker that passes the guard: it reads its flag and goes on to its first
\* access
Enter(idx) ==
    /\ phase = "running"
    /\ idx \in DOMAIN pc
    /\ pc[idx] = 0
    /\ log' = log (+) GuardLog({idx})
    /\ pc' = [pc EXCEPT ![idx] = 1]
    /\ UNCHANGED <<todo, queue, phase, op, P, deg, max_coeffs, mem, pre, prog, regs,
                   culled, surplus, classes, launches>>

\* the worker's next access is a load
Load(idx) ==
    /\ phase = "running"
    /\ idx \in DOMAIN pc
    /\ pc[idx] \in DOMAIN prog[idx]
    /\ LET a == prog[idx][pc[idx]]
       IN  /\ a.kind = "R"
           /\ log' = log (+) Access(idx, a)
           /\ \E out \in LoadOutcomes(a.arr, a.i) :
                IF out.end # "none"
                THEN /\ phase' = out.end
                     /\ pc' = pc
                     /\ regs' = regs
                ELSE /\ phase' = phase
                     /\ pc' = [pc EXCEPT ![idx] = @ + 1]
                     /\ regs' = [regs EXCEPT ![idx] = (<<a.arr, a.i>> :> out.val) @@ @]
    /\ UNCHANGED <<todo, queue, op, P, deg, max_coeffs, mem, pre, prog, culled, surplus,
                   classes, launches>>

\* the worker's next access is a store, of a whole entry or of one component
\* of a vec3 entry; after its last access it returns
Store(idx) ==
    /\ phase = "running"
    /\ idx \in DOMAIN pc
    /\ pc[idx] \in DOMAIN prog[idx]
    /\ LET a == prog[idx][pc[idx]]
           last == pc[idx] = Len(prog[idx])
       IN  /\ a.kind = "W"
           /\ log' = log (+) Access(idx, a)
           /\ \E out \in StoreOutcomes(a.arr, a.i) :
                IF out \in {"faulted", "undefined"}
                THEN /\ phase' = out
                     /\ pc' = pc
                     /\ regs' = regs
                     /\ mem' = mem
                ELSE /\ phase' = phase
                     /\ pc' = [pc EXCEPT ![idx] = @ + 1]
                     /\ regs' = [regs EXCEPT ![idx] = IF last THEN << >> ELSE @]
                     /\ mem' = IF out = "stored"
                               THEN LET v == StoreValue(op, idx, regs[idx], a)
                                    IN  [mem EXCEPT ![a.arr][a.i] =
                                            IF a.c = 0 THEN v ELSE [@ EXCEPT ![a.c] = v[a.c]]]
                               ELSE mem
    /\ UNCHANGED <<todo, queue, op, P, deg, max_coeffs, pre, prog, culled, surplus,
                   classes, launches>>

\* A culled worker reads its visibility flag (false) and returns.  The culled
\* workers are interchangeable: each makes this one step, which no other step
\* depends on.  Any number of them may have returned at any moment; the log
\* charges the reads to them in rank order.
CulledReturn ==
    /\ phase = "running"
    /\ culled # << >>
    /\ log' = log (+) GuardLog({Head(culled)})
    /\ culled' = Tail(culled)
    /\ UNCHANGED <<todo, queue, phase, op, P, deg, max_coeffs, mem, pre, prog, pc, regs,
                   surplus, classes, launches>>

\* The workers with idx >= P return at the guard's first operand.  They make
\* no access, so their returns are steps nothing else can observe and are
\* taken together.
SurplusReturn ==
    /\ phase = "running"
    /\ surplus > 0
    /\ surplus' = 0
    /\ log' = log (+) GuardLog(Ranks(classes.grid) \ (0..(P - 1)))
    /\ UNCHANGED <<todo, queue, phase, op, P, deg, max_coeffs, mem, pre, prog, pc, regs,
                   culled, classes, launches>>

\* every worker of the kernel has returned
Finished ==
    /\ surplus = 0
    /\ culled = << >>
    /\ \A idx \in DOMAIN pc : Done(idx)

\* the kernel is complete
Complete ==
    /\ phase = "running"
    /\ Finished
    /\ phase' = "idle"
    /\ UNCHANGED <<todo, queue, op, P, deg, max_coeffs, mem, pre, prog, pc, regs, culled,
                   surplus, classes, log, launches>>

Next ==
    \/ Call
    \/ Start
    \/ \E idx \in DOMAIN pc : Enter(idx)
    \/ \E idx \in DOMAIN pc : Load(idx)
    \/ \E idx \in DOMAIN pc : Store(idx)
    \/ CulledReturn
    \/ SurplusReturn
    \/ Complete

\* ------------------------------------------------------------ initial states
\* f when one of the operations T uses the array, else no array
ArrayOf(T, arr, f) ==
    IF \E o \in T : arr \in InputArrays(o) \cup OutputArrays(o) THEN f ELSE << >>

\* the arrays the caller passes to the operations T on n primitives with
\* coefficient stride mc, each of the size the caller allocates; the
\* covariance outputs are allocated by the entry points themselves
BaseMem(T, n, mc) ==
    [dirs       |-> ArrayOf(T, "dirs", [i \in 0..(n - 1) |-> <<1, -1, i % 2>>]),
     shs        |-> ArrayOf(T, "shs", [j \in 0..(n * mc - 1) |-> <<(j % 3) - 1, 1, -(j % 2)>>]),
     visible    |-> [i \in 0..(n - 1) |-> TRUE],
     colors     |-> ArrayOf(T, "colors", [i \in 0..(n - 1) |-> Junk3]),
     clamped    |-> ArrayOf(T, "clamped", [j \in 0..(3 * n - 1) |-> j % 2 = 0]),
     dL_dcolors |-> ArrayOf(T, "dL_dcolors", [i \in 0..(n - 1) |-> <<1, -1, 2>>]),
     dL_ddirs   |-> ArrayOf(T, "dL_ddirs", [i \in 0..(n - 1) |-> Junk3]),
     dL_dshs    |-> ArrayOf(T, "dL_dshs", [j \in 0..(n * mc - 1) |-> Junk3]),
     scales     |-> ArrayOf(T, "scales", [i \in 0..(n - 1) |-> <<1, 2, (i % 2) + 1>>]),
     uquats     |-> ArrayOf(T, "uquats", [i \in 0..(n - 1) |-> <<1, i % 2, 0, -1>>]),
     cov3Ds     |-> << >>,
     dL_dcov3Ds |-> ArrayOf(T, "dL_dcov3Ds", [j \in 0..(6 * n - 1) |-> (j % 3) - 1]),
     dL_dscales |-> << >>,
     dL_duquats |-> << >>]

\* nothing has been called yet
InitHost ==
    /\ queue = << >>
    /\ phase = "idle"
    /\ op = "none"
    /\ pre = mem
    /\ prog = << >>
    /\ pc = << >>
    /\ regs = << >>
    /\ culled = << >>
    /\ surplus = 0
    /\ classes = [grid |-> 0, culled |-> 0, surplus |-> 0]
    /\ log = EmptyBag
    /\ launches = << >>

Max(a, b) == IF a > b THEN a ELSE b

\* the launchers take any stride and do not compare it with deg: the
\* shortest stride of the calls is up to MaxShort entries short of the
\* (deg+1)^2 coefficients a worker touches
MinStride(d) == Max(1, NumCoeffs(d) - MaxShort)

\* one call of any operation on 0..MaxN primitives, every visibility mask,
\* every degree, strides from MinStride(d) to (d+1)^2 + MaxPad
Init ==
    /\ \E o \in Ops, n \in 0..MaxN, d \in 0..3 :
        \E mc \in MinStride(d)..(NumCoeffs(d) + MaxPad), vis \in [0..(n - 1) -> BOOLEAN] :
            /\ IF IsSH(o) THEN TRUE ELSE d = 0 /\ mc = 1
            /\ todo = <<o>>
            /\ P = n
            /\ deg = d
            /\ max_coeffs = mc
            /\ mem = [BaseMem({o}, n, mc) EXCEPT !.visible = vis]
    /\ InitHost
Spec == Init /\ [][Next]_vars

\* launches around the group size: N that fills g groups exactly and N that
\* needs one worker of a further group, g = 0 .. MaxGroups; the last
\* primitive is visible, the others are culled
GridSizes ==
    {n \in 0..(MaxGroups * BLOCK + 1) :
        \E g \in 0..MaxGroups : n - g * BLOCK \in {0, 1}}

InitGrid ==
    /\ deg = 0
    /\ max_coeffs = 1
    /\ \E o \in Ops, n \in GridSizes :
            /\ todo = <<o>>
            /\ P = n
            /\ mem = [BaseMem({o}, n, 1) EXCEPT
                        !.visible = [i \in 0..(n - 1) |-> i = n - 1]]
    /\ InitHost
SpecGrid == InitGrid /\ [][Next]_vars

\* numeric inputs: components from -1..MaxVal
Vals == (-1)..MaxVal
Vec3s == {<<a, b, c>> : a \in Vals, b \in Vals, c \in Vals}
\* quaternions: scalar part (0 or 1) first, vector part from {-1, 0, 1}
Quats == {<<r, x, y, z>> : r \in {0, 1}, x \in {-1, 0, 1}, y \in {-1, 0, 1}, z \in {-1, 0, 1}}

\* blocks of 16 coefficients with sh[0] = a, sh[k] = b and zero elsewhere (k
\* beyond the degree's bands included), with the incoming colour gradient g
ShCases == {[a |-> <<1, -2, 0>>, b |-> <<-2, 1, 2>>, g |-> <<1, -1, 2>>],
            [a |-> <<-2, 1, 2>>, b |-> <<1, -2, 0>>, g |-> <<0, 1, -1>>]}
ShBlock(k, a, b) ==
    [j \in 0..15 |-> IF j = 0 THEN a ELSE IF j = k THEN b ELSE Zero3]

\* A call at the clamp boundary.  In the direction TieDir the degree-3 sum of
\* the coefficients TieCoefs is -0.5: -HALF in fixed point, and -0.5f in the
\* kernel's float arithmetic, the sum taken in source order (lines 53-83), so
\* result = 0 after line 86.  TieBlock has these coefficients in the second
\* channel and sh[0] one lower in the first and one higher in the third:
\* result is negative in the first channel, 0 in the second and positive in
\* the third.  TieCoefs[k + 1] is the coefficient of sh[k].
TieDir == <<1, 1, 1>>
TieCoefs ==
    <<-4, 5, -4, 3, 3, -2, 0, -3, 0, -1, -4, -4, 2, -3, 0, 4>>
TieBlock ==
    [k \in 0..15 |->
        IF k = 0
        THEN <<TieCoefs[1] - 1, TieCoefs[1], TieCoefs[1] + 1>>
        ELSE <<TieCoefs[k + 1], TieCoefs[k + 1], TieCoefs[k + 1]>>]

\* the calls of the SH specification: every degree, every direction of
\* Vec3s, every block of ShCases; and the call at the clamp boundary
ShCalls ==
    {[deg |-> d, dir |-> dir, shs |-> ShBlock(k, c.a, c.b), g |-> c.g] :
        d \in 0..3, dir \in Vec3s, k \in 0..15, c \in ShCases}
    \cup {[deg |-> 3, dir |-> TieDir, shs |-> TieBlock, g |-> <<1, -1, 2>>]}

\* SH forward then SH backward on one primitive, visible or culled
InitSH ==
    /\ todo = <<"SHForward", "SHBackward">>
    /\ P = 1
    /\ max_coeffs = 16
    /\ \E call \in ShCalls, vis \in BOOLEAN :
            /\ deg = call.deg
            /\ mem = [BaseMem({"SHForward", "SHBackward"}, 1, 16) EXCEPT
                        !.visible = [i \in {0} |-> vis],
                        !.dirs = [i \in {0} |-> call.dir],
                        !.shs = call.shs,
                        !.dL_dcolors = [i \in {0} |-> call.g]]
    /\ InitHost
SpecSH == InitSH /\ [][Next]_vars

\* covariance forward, or covariance backward with a probe gradient, on one
\* primitive, visible or culled: every scale of Vec3s (zero and negative
\* included), every quaternion of Quats (unit or not)
Probes ==
    {[e \in 0..5 |-> IF e = h THEN 1 ELSE 0] : h \in 0..5}
    \cup {[e \in 0..5 |-> (e % 3) - 1]}

InitCov ==
    /\ P = 1
    /\ deg = 0
    /\ max_coeffs = 1
    /\ \E s \in Vec3s, q \in Quats, o \in {"Cov3DForward", "Cov3DBackward"}, vis \in BOOLEAN :
        \E g \in (IF o = "Cov3DForward" THEN {<< >>} ELSE Probes) :
            /\ todo = <<o>>
            /\ mem = [BaseMem({o}, 1, 1) EXCEPT
                        !.visible = [i \in {0} |-> vis],
                        !.scales = [i \in {0} |-> s],
                        !.uquats = [i \in {0} |-> q],
                        !.dL_dcov3Ds = g]
    /\ InitHost
SpecCov == InitCov /\ [][Next]_vars

\* ============================================================== properties
\* every call has been made and the last kernel, o, is complete
Completed(o) == op = o /\ phase = "idle" /\ todo = << >> /\ queue = << >>

\* sum of a tuple of integers
RECURSIVE SeqSum(_)
SeqSum(q) == IF q = << >> THEN 0 ELSE Head(q) + SeqSum(Tail(q))

\* The derivative at t of a polynomial p of degree <= 4, from its values at
\* t-2, t-1, t+1, t+2: p'(t) = (p(t-2) - 8 p(t-1) + 8 p(t+1) - p(t+2)) / 12,
\* exactly.  The forward kernels are polynomials of degree <= 3 in a
\* direction component, <= 2 in a scale component and <= 4 in a quaternion
\* component.
Deriv(m2, m1, p1, p2) == (m2 - 8 * m1 + 8 * p1 - p2) \div 12

\* v with component a moved by t
Bump(v, a, t) == [v EXCEPT ![a] = v[a] + t]

\* ------------------------------------------------------------------ launches
\* a kernel has been started
KernelStarted == op \in Ops

\* the entries of the log
Accesses == BagToSet(log)

\* the output locations that belong to primitive i in operation o
OutputsOf(o, i) ==
    CASE o = "SHForward" ->
            {<<"colors", i>>} \cup {<<"clamped", 3 * i + c>> : c \in 0..2}
      [] o = "SHBackward" ->
            {<<"dL_ddirs", i>>}
            \cup {<<"dL_dshs", i * max_coeffs + k>> : k \in 0..(max_coeffs - 1)}
      [] o = "Cov3DForward" ->
            {<<"cov3Ds", 6 * i + e>> : e \in 0..5}
      [] o = "Cov3DBackward" ->
            {<<"dL_dscales", 3 * i + c>> : c \in 0..2}
            \cup {<<"dL_duquats", 4 * i + c>> : c \in 0..3}

\* every output location of every culled primitive holds the value it held
\* when the kernel started
MaskedOutputsUnchanged ==
    \A i \in 0..(P - 1) :
        ~mem.visible[i] =>
            \A l \in OutputsOf(op, i) : mem[l[1]][l[2]] = pre[l[1]][l[2]]

\* C1 as claimed: visibility masking.  In each of the four kernels, for every
\* degree and stride, at every moment of the kernel's run and after it, every
\* output location of a primitive i < N with visible[i] = false holds the
\* value it held when the kernel started, whatever the other workers have done.
C1_MaskedOutputsUnchangedAnyStride ==
    KernelStarted => MaskedOutputsUnchanged

\* C1 as amended: the same, for every stride max_coeffs >= (deg+1)^2.
C1_MaskedOutputsUnchanged ==
    (KernelStarted /\ max_coeffs >= (deg + 1) * (deg + 1)) => MaskedOutputsUnchanged

\* an SH backward launch on a culled primitive 0 and a visible primitive 1,
\* with a stride that covers the bands, over: primitive 1's gradients were
\* stored
C1_Witness ==
    /\ Completed("SHBackward")
    /\ P = 2
    /\ deg = 1
    /\ max_coeffs >= 4
    /\ ~mem.visible[0]
    /\ mem.visible[1]
    /\ mem.dL_ddirs[1] # pre.dL_ddirs[1]
    /\ \A k \in 0..3 : mem.dL_dshs[max_coeffs + k] # pre.dL_dshs[max_coeffs + k]

\* the float stores that set an entry: three for a glm::vec3 array the
\* kernels store to, one for a float or bool array
Components(arr) ==
    IF arr \in {"colors", "dL_dshs", "dL_ddirs"} THEN 1..3 ELSE {0}

\* entries per primitive of each array
Width(arr) ==
    CASE arr \in {"shs", "dL_dshs"} -> max_coeffs
      [] arr \in {"clamped", "dL_dscales"} -> 3
      [] arr = "dL_duquats" -> 4
      [] arr \in {"cov3Ds", "dL_dcov3Ds"} -> 6
      [] OTHER -> 1

\* access e is a read of an input or a write of an output, at a location of
\* the worker's own primitive; in the SH arrays, at one of the entries
\* 0 .. (deg+1)^2 - 1 of the slice that starts at w * max_coeffs
OwnAccess(e) ==
    /\ IF e.kind = "R" THEN e.arr \in InputArrays(op) ELSE e.arr \in OutputArrays(op)
    /\ e.i >= e.w * Width(e.arr)
    /\ e.i < (e.w + 1) * Width(e.arr)
    /\ e.arr \in {"shs", "dL_dshs"} =>
            e.i - e.w * max_coeffs \in 0..((deg + 1) * (deg + 1) - 1)

\* the location written by access e is read or written by another worker
Conflict(e) ==
    /\ e.kind = "W"
    /\ \E v \in DOMAIN pc \ {e.w} : \E kd \in {"R", "W"} :
            \E c \in 0..3 :
                [w |-> v, kind |-> kd, arr |-> e.arr, i |-> e.i, c |-> c] \in Accesses

IndexPartitioned ==
    /\ \A e \in Accesses : OwnAccess(e)
    /\ \A e \in Accesses : ~Conflict(e)

\* C2 as claimed: for every N, degree and stride, every access is to the
\* worker's own primitive and no location is written by one worker and read
\* or written by another.
C2_IndexPartitionedAnyStride ==
    KernelStarted => IndexPartitioned

\* C2 as amended: the same, for every stride max_coeffs >= (deg+1)^2.
C2_IndexPartitioned ==
    (KernelStarted /\ max_coeffs >= (deg + 1) * (deg + 1)) => IndexPartitioned

\* a degree-3 SH backward launch with a spare slot per slice, over, in which
\* two workers loaded and stored their slices
C2_Witness ==
    /\ Completed("SHBackward")
    /\ P = 2
    /\ deg = 3
    /\ max_coeffs = 17
    /\ \A w \in {0, 1} :
        /\ [w |-> w, kind |-> "W", arr |-> "dL_dshs", i |-> w * 17 + 15, c |-> 3] \in Accesses
        /\ [w |-> w, kind |-> "R", arr |-> "shs", i |-> w * 17 + 15, c |-> 0] \in Accesses

\* C8: SH backward writes the coefficient gradients of the consumed bands
\* only.  The worker of a visible primitive i writes dL_dshs[i*max_coeffs + k]
\* for exactly the k < (deg+1)^2, the entries (deg+1)^2 <= k < max_coeffs keep
\* their value, and it writes dL_ddirs[i] at every degree, to zero at deg = 0.
C8_ConsumedBandsOnly ==
    op = "SHBackward" =>
        \A i \in 0..(P - 1) :
            /\ \A k \in ((deg + 1) * (deg + 1))..(max_coeffs - 1) :
                    mem.dL_dshs[i * max_coeffs + k] = pre.dL_dshs[i * max_coeffs + k]
            /\ (mem.visible[i] /\ i \in DOMAIN pc /\ Done(i)) =>
                /\ {e.i : e \in {a \in Accesses : a.w = i /\ a.kind = "W" /\ a.arr = "dL_dshs"}}
                        = {i * max_coeffs + k : k \in 0..((deg + 1) * (deg + 1) - 1)}
                /\ \A c \in 1..3 :
                    [w |-> i, kind |-> "W", arr |-> "dL_ddirs", i |-> i, c |-> c] \in Accesses
                /\ mem.dL_ddirs[i] # pre.dL_ddirs[i]
                /\ deg = 0 => mem.dL_ddirs[i] = Zero3

\* a degree-0 launch with stride 2, over: the DC gradient and a zero direction
\* gradient were stored, the spare slot was not
C8_Witness ==
    /\ Completed("SHBackward")
    /\ P = 2
    /\ deg = 0
    /\ max_coeffs = 2
    /\ mem.visible[1]
    /\ mem.dL_ddirs[1] = Zero3
    /\ mem.dL_dshs[2] # Junk3
    /\ mem.dL_dshs[3] = Junk3

\* C9: once the call is made, with N = 0 no launch has been issued and no
\* worker runs; with N > 0 one launch has been issued, and when its kernel is
\* complete every worker of it has returned.
C9_EmptyLaunchSkipped ==
    todo = << >> =>
        IF P = 0
        THEN launches = << >> /\ queue = << >> /\ op = "none"
        ELSE /\ Len(launches) = 1
             /\ (KernelStarted /\ phase = "idle") => Finished

\* C10: launch coverage.  For N > 0 the launch has ceil(N/256) groups of 256
\* workers; the kernel's workers are one per index i < N (those that pass the
\* guard and the culled ones) and grid * 256 - N surplus workers; no worker of
\* rank >= N reads or writes any array, no worker writes outside its own
\* primitive's entries, and when the kernel is complete every output location
\* of a visible primitive has been written exactly once.
C10_LaunchCoverage ==
    (launches # << >> /\ P > 0) =>
        /\ Len(launches) = 1
        /\ launches[1].block = 256
        /\ launches[1].grid * 256 >= P
        /\ (launches[1].grid - 1) * 256 < P
        /\ KernelStarted =>
            /\ DOMAIN pc = {i \in 0..(P - 1) : mem.visible[i]}
            /\ classes.culled = Cardinality({i \in 0..(P - 1) : ~mem.visible[i]})
            /\ classes.surplus = launches[1].grid * 256 - P
            /\ \A e \in Accesses :
                /\ e.w < P
                /\ e.kind = "W" => (e.i >= e.w * Width(e.arr) /\ e.i < (e.w + 1) * Width(e.arr))
            /\ phase = "idle" =>
                /\ surplus = 0
                /\ culled = << >>
                /\ \A i \in DOMAIN pc :
                    /\ Done(i)
                    /\ \A l \in OutputsOf(op, i) :
                        \A c \in Components(l[1]) :
                            CopiesIn([w |-> i, kind |-> "W", arr |-> l[1], i |-> l[2], c |-> c], log) = 1

\* a launch on 257 primitives, complete: two groups, 255 surplus workers and
\* 256 culled workers returned, the last primitive's covariance stored
C10_Witness ==
    /\ Completed("Cov3DForward")
    /\ P = 257
    /\ launches[1].grid = 2
    /\ classes.surplus = 255
    /\ classes.culled = 256
    /\ mem.visible[256]
    /\ mem.cov3Ds[6 * 256] # 0

\* ---------------------------------------------------------------- covariance
\* d cov3D[e] / d scale[a] and d cov3D[e] / d quat[b] of the forward, as the
\* tuple over e in 1..6
DCovDScale(s, q, a) ==
    LET m2 == compute_cov3d_forward(Bump(s, a, -2), q)
        m1 == compute_cov3d_forward(Bump(s, a, -1), q)
        p1 == compute_cov3d_forward(Bump(s, a, 1), q)
        p2 == compute_cov3d_forward(Bump(s, a, 2), q)
    IN  [e \in 1..6 |-> Deriv(m2[e], m1[e], p1[e], p2[e])]
DCovDQuat(s, q, b) ==
    LET m2 == compute_cov3d_forward(s, Bump(q, b, -2))
        m1 == compute_cov3d_forward(s, Bump(q, b, -1))
        p1 == compute_cov3d_forward(s, Bump(q, b, 1))
        p2 == compute_cov3d_forward(s, Bump(q, b, 2))
    IN  [e \in 1..6 |-> Deriv(m2[e], m1[e], p1[e], p2[e])]

\* C5: covariance backward stores the Jacobian of covariance forward applied
\* to the incoming gradient: dL_dscale[a] = sum_e dL_dcov3D[e] * d cov3D[e]/d s[a]
\* and dL_dquat[b] = sum_e dL_dcov3D[e] * d cov3D[e]/d q[b], for every scale and
\* quaternion (unit or not); a probe gradient yields one row of the Jacobian.
C5_BackwardIsJacobian ==
    (Completed("Cov3DBackward") /\ mem.visible[0]) =>
        LET s == mem.scales[0]
            q == mem.uquats[0]
            g == mem.dL_dcov3Ds
        IN  /\ \A a \in 1..3 :
                LET J == DCovDScale(s, q, a)
                IN  mem.dL_dscales[a - 1] = SeqSum([e \in 1..6 |-> g[e - 1] * J[e]])
            /\ \A b \in 1..4 :
                LET J == DCovDQuat(s, q, b)
                IN  mem.dL_duquats[b - 1] = SeqSum([e \in 1..6 |-> g[e - 1] * J[e]])

\* a backward call on a non-unit quaternion with a one-entry probe on an
\* off-diagonal entry, whose row of the Jacobian is not zero
C5_Witness ==
    /\ Completed("Cov3DBackward")
    /\ mem.uquats[0] = <<1, 1, 0, -1>>
    /\ mem.scales[0] = <<1, -1, 0>>
    /\ mem.dL_dcov3Ds = [e \in 0..5 |-> IF e = 1 THEN 1 ELSE 0]
    /\ mem.visible[0]
    /\ \E b \in 0..3 : mem.dL_duquats[b] # 0
    /\ \E a \in 0..2 : mem.dL_dscales[a] # 0

\* glm::mat3 * glm::vec3
MatVec(m, v) ==
    [r \in 1..3 |-> m[1][r] * v[1] + m[2][r] * v[2] + m[3][r] * v[3]]

\* the 3x3 matrix rebuilt from the stored entries [00, 01, 02, 11, 12, 22]
Rebuilt(c) ==
    Mat3(c[0], c[1], c[2],
         c[1], c[3], c[4],
         c[2], c[4], c[5])

\* C6: the matrix rebuilt from the six entries covariance forward stores is
\* Mt*M for M = S*R: it equals transpose(M)*M entry by entry, is symmetric, and
\* its quadratic form v^T Sigma v is |M v|^2 >= 0 for every v, for every scale
\* (zero and negative included) and every quaternion (unit or not).
C6_ForwardIsPSD ==
    (Completed("Cov3DForward") /\ mem.visible[0]) =>
        LET s == mem.scales[0]
            q == mem.uquats[0]
            Sigma == Rebuilt(mem.cov3Ds)
            M == MatMul(scale_vector_to_matrix(s), unit_quaternion_to_rotmatrix(q))
        IN  /\ Sigma = MatMul(Transpose(M), M)
            /\ Sigma = Transpose(Sigma)
            /\ \A v \in Vec3s :
                /\ Dot(v, MatVec(Sigma, v)) = Dot(MatVec(M, v), MatVec(M, v))
                /\ Dot(v, MatVec(Sigma, v)) >= 0

\* a forward call with a negative and a zero scale and a non-unit quaternion
C6_Witness ==
    /\ Completed("Cov3DForward")
    /\ mem.scales[0] = <<-1, 0, 1>>
    /\ mem.uquats[0] = <<1, 1, -1, 0>>
    /\ mem.visible[0]
    /\ \E e \in 0..5 : mem.cov3Ds[e] # 0

\* ----------------------------------------------------------------- SH colour
\* the SH forward kernel on a visible primitive 0 is complete (its outputs
\* stay while backward runs)
ForwardCompleted ==
    /\ mem.visible[0]
    /\ \/ op = "SHForward" /\ phase = "idle"
       \/ op = "SHBackward"

\* the slice of primitive 0 and the pre-clamp colour of the forward call
Slice0 == [k \in 0..(max_coeffs - 1) |-> mem.shs[k]]
Raw0 == SHForwardResult(deg, mem.dirs[0], Slice0)

\* d raw / d dir[a] of the forward sum at degree d, per channel
DRawDDir(d, dir, sh, a) ==
    LET m2 == SHForwardResult(d, Bump(dir, a, -2), sh)
        m1 == SHForwardResult(d, Bump(dir, a, -1), sh)
        p1 == SHForwardResult(d, Bump(dir, a, 1), sh)
        p2 == SHForwardResult(d, Bump(dir, a, 2), sh)
    IN  [c \in 1..3 |-> Deriv(m2[c], m1[c], p1[c], p2[c])]

\* C3: clamping law.  Channel by channel, with raw the forward sum + 0.5:
\* raw < 0: forward stores colour 0 and mask true, and backward run with that
\* mask gives 0 in that channel of every coefficient gradient and a direction
\* gradient that does not depend on the channel's incoming gradient;
\* raw >= 0: forward stores raw and mask false, and backward uses the
\* channel's incoming gradient with factor 1.
C3_ClampingLaw ==
    /\ ForwardCompleted =>
        LET raw == Raw0
        IN  \A c \in 1..3 :
                IF raw[c] < 0
                THEN mem.colors[0][c] = 0 /\ mem.clamped[c - 1] = TRUE
                ELSE mem.colors[0][c] = raw[c] /\ mem.clamped[c - 1] = FALSE
    /\ (Completed("SHBackward") /\ mem.visible[0]) =>
        LET g == mem.dL_dcolors[0]
            cl == <<mem.clamped[0], mem.clamped[1], mem.clamped[2]>>
        IN  /\ \A c \in 1..3 :
                IF Raw0[c] < 0
                THEN /\ \A k \in 0..((deg + 1) * (deg + 1) - 1) : mem.dL_dshs[k][c] = 0
                     /\ \A v \in {0, 3} :
                            SHBackward(deg, mem.dirs[0], Slice0, cl, [g EXCEPT ![c] = v]).dL_ddir
                                = mem.dL_ddirs[0]
                ELSE mem.dL_dshs[0][c] = SH_C0 * g[c]
            /\ \A a \in 1..3 :
                LET J == DRawDDir(deg, mem.dirs[0], Slice0, a)
                IN  mem.dL_ddirs[0][a] =
                        SeqSum([c \in 1..3 |-> IF Raw0[c] < 0 THEN 0 ELSE g[c] * J[c]])

\* forward then backward on a primitive with one channel clamped (raw < 0),
\* one at the boundary (raw = 0: colour 0, mask false, gradient passed on) and
\* one above it (raw > 0), each with a non-zero incoming gradient, and a
\* non-zero direction gradient
C3_Witness ==
    /\ Completed("SHBackward")
    /\ mem.visible[0]
    /\ deg = 3
    /\ \E c \in 1..3 :
            /\ Raw0[c] < 0
            /\ mem.clamped[c - 1]
            /\ mem.dL_dcolors[0][c] # 0
            /\ mem.dL_dshs[0][c] = 0
    /\ \E c \in 1..3 :
            /\ Raw0[c] = 0
            /\ mem.colors[0][c] = 0
            /\ ~mem.clamped[c - 1]
            /\ mem.dL_dcolors[0][c] # 0
            /\ mem.dL_dshs[0][c] = SH_C0 * mem.dL_dcolors[0][c]
    /\ \E c \in 1..3 :
            /\ Raw0[c] > 0
            /\ mem.colors[0][c] = Raw0[c]
            /\ ~mem.clamped[c - 1]
            /\ mem.dL_dcolors[0][c] # 0
    /\ mem.dL_ddirs[0] # Zero3

\* basis function k of the forward sum at dir: the degree-3 sum of the block
\* that is 1 at k and 0 elsewhere, without the bias
UnitBlock(k) == [j \in 0..15 |-> IF j = k THEN <<1, 1, 1>> ELSE Zero3]
Basis(k, dir) == SHForwardResult(3, dir, UnitBlock(k))[1] - HALF
\* its partial derivative w.r.t. dir[a]
DBasis(k, dir, a) ==
    Deriv(Basis(k, Bump(dir, a, -2)), Basis(k, Bump(dir, a, -1)),
          Basis(k, Bump(dir, a, 1)), Basis(k, Bump(dir, a, 2)))

\* the incoming colour gradient with the clamped channels zeroed
MaskedGrad0 ==
    [c \in 1..3 |-> IF mem.clamped[c - 1] THEN 0 ELSE mem.dL_dcolors[0][c]]

\* C4: SH backward stores the exact partial derivatives of the forward
\* polynomial: dL_dsh[k] = basis_k(dir) * g for k < (deg+1)^2, and
\* dL_ddir[a] = sum over k < (deg+1)^2 of d basis_k / d dir[a] * dot(sh[k], g),
\* g being the masked colour gradient; coefficients of bands above deg
\* contribute nothing.
C4_BackwardIsGradient ==
    (Completed("SHBackward") /\ mem.visible[0]) =>
        LET dir == mem.dirs[0]
            g == MaskedGrad0
            n == (deg + 1) * (deg + 1)
        IN  /\ \A k \in 0..(n - 1) :
                mem.dL_dshs[k] = <<Basis(k, dir) * g[1], Basis(k, dir) * g[2], Basis(k, dir) * g[3]>>
            /\ \A a \in 1..3 :
                mem.dL_ddirs[0][a] =
                    SeqSum([j \in 1..n |->
                        LET w == Dot(mem.shs[j - 1], g)
                        IN  IF w = 0 THEN 0 ELSE DBasis(j - 1, dir, a) * w])

\* a degree-3 backward call whose block has a band-3 coefficient and whose
\* direction gradient is not zero; and a lower degree with a coefficient beyond it
C4_Witness ==
    /\ Completed("SHBackward")
    /\ mem.visible[0]
    /\ deg = 3
    /\ mem.dirs[0] = <<1, -1, 1>>
    /\ mem.shs[13] # Zero3
    /\ mem.dL_ddirs[0] # Zero3
    /\ mem.dL_dshs[13] # Zero3

\* C7: monotonic extension.  If the coefficients of index >= (d+1)^2 are zero,
\* forward at the call's degree stores exactly the colour and mask of forward
\* at degree d < deg; and when all coefficients but sh[0] are zero the colour is
\* max(SH_C0 * c0 + 0.5, 0) per channel, whatever the direction.
C7_MonotonicExtension ==
    ForwardCompleted =>
        LET dir == mem.dirs[0]
            n == (deg + 1) * (deg + 1)
            stored == [clamped |-> <<mem.clamped[0], mem.clamped[1], mem.clamped[2]>>,
                       color |-> mem.colors[0]]
        IN  /\ \A d \in 0..(deg - 1) :
                (\A k \in ((d + 1) * (d + 1))..(n - 1) : mem.shs[k] = Zero3)
                    => stored = SHForward(d, dir, Slice0)
            /\ (\A k \in 1..(n - 1) : mem.shs[k] = Zero3)
                    => \A c \in 1..3 :
                        mem.colors[0][c] = Max(SH_C0 * mem.shs[0][c] + HALF, 0)

\* a degree-3 forward call whose only non-zero coefficients are sh[0] and a
\* band-1 coefficient, in a direction where band 1 does not vanish: it agrees
\* with degrees 1 and 2 and differs from degree 0
C7_Witness ==
    /\ ForwardCompleted
    /\ deg = 3
    /\ mem.dirs[0] = <<1, 1, -1>>
    /\ mem.shs[2] # Zero3
    /\ \A k \in 4..15 : mem.shs[k] = Zero3
    /\ mem.colors[0] # SHForward(0, mem.dirs[0], Slice0).color

====
